---- MODULE Spec2Model ----
(***************************************************************************)
(* Model of the yt-music-download-api server.                              *)
(*                                                                         *)
(* Two revisions of the route handler live in the repository:              *)
(*   - src/unnamed/part_002 : the multi-format handler (formatsToTry loop),*)
(*     modelled by the actions of Next / Spec;                             *)
(*   - src/index.js         : the single-attempt handler with the          *)
(*     req.on('close') kill, modelled by the actions of NextSingle /       *)
(*     SpecSingle.                                                         *)
(* cleanupOldFiles, scheduleDelete and fetchMetadata are shared.           *)
(*                                                                         *)
(* Node runs every callback to completion on one thread, so each action is *)
(* one callback (or one continuation of the async handler up to its next   *)
(* await).  yt-dlp, ffmpeg, the clock, the client and the filesystem are   *)
(* the environment.  A filesystem call fails only for the reason the state *)
(* gives it: ENOENT for a path that is gone or a dangling link, EISDIR for *)
(* unlink of a directory.                                                  *)
(***************************************************************************)
EXTENDS Integers, Sequences, FiniteSets, TLC

\* ------------------------------------------------------------------ bounds
\* number of clock advances explored
MaxTicks == 2

\* --------------------------------------------------------------- constants
ONE_HOUR_MS == 60 * 60 * 1000

formatsToTry ==
  << "bestaudio[ext=m4a]/bestaudio",
     "bestaudio[protocol^=https]/bestaudio",
     "bestaudio[ext=webm]/bestaudio",
     "bestaudio" >>

\* strings the handler takes apart are sequences of one-character strings
Low == << "l", "o", "w" >>
Medium == << "m", "e", "d", "i", "u", "m" >>
High == << "h", "i", "g", "h" >>

qualityMap == (Low :> "64k") @@ (Medium :> "128k") @@ (High :> "320k")

\* the clients whose requests are explored: one at a time with the clock
\* running (Solo), or several inside one millisecond (Pair, Trio)
Reqs == {1, 2, 3}
Solo == {1}
Pair == {1, 2}
Trio == Reqs

EmptyId == << >>
VideoId == << "d", "Q", "w", "4", "w", "9", "W", "g", "X", "c", "Q" >>

\* request inputs: req.params.id and req.params.quality
Ids == {EmptyId, VideoId}

\* identifier segments for the resolution of the URL: ids of the strict
\* pattern (one of them beginning with "http"), ids that miss it by length
\* or by a character, URLs with their slashes escaped or not, and a word
\* that merely begins with "http"
HttpLikeId == << "h", "t", "t", "p", "_", "Q", "w", "4", "-", "9", "X" >>
EscapedUrl ==
  << "h", "t", "t", "p", "s", "%3A", "%2F", "%2F", "y", "t", ".", "b", "e", "%2F", "x" >>
IdInputs ==
  { VideoId, HttpLikeId, EscapedUrl,
    << "h", "t", "t", "p", ":", "/", "/", "x" >>,
    << "a", "b", "c" >>,
    << "d", "Q", "w", "4", "w", "9", "W", "g", "X", "c", "Q", "Q" >>,
    << "d", "Q", "w", "4", ".", "9", "W", "g", "X", "c", "Q" >>,
    << "h", "t", "t", "p", "f", "o", "o" >> }
Qualities == {<< "H", "i", "g", "h" >>}

\* quality segments for the resolution of the tier: the three tiers in
\* several spellings, and segments that name no tier
QualityInputs ==
  { << "H", "i", "g", "h" >>, << "L", "o", "w" >>, << "l", "o", "w" >>,
    << "M", "E", "D", "I", "U", "M" >>, << "m", "e", "d", "i", "u", "m" >>,
    << "h", "i", "g", "h" >>, << "l", "o" >>, << "l", "o", "w", "s" >>,
    << "u", "l", "t", "r", "a" >>, << "3", "2", "0", "k" >> }

\* what the yt-dlp -j child of fetchMetadata ends with: JSON with a title,
\* a non-zero exit, exit 0 without output, exit 0 with output that is no
\* JSON, or the 'error' event of a failed spawn
MetaFailures == {"nonzero", "empty", "malformed", "spawnError"}
MetaOutcomes == {"title"} \cup MetaFailures
MetaTitle == << "S", "o", "n", "g" >>

\* exit codes ffmpeg ends with on its own
ExitCodes == {0, 1}
\* the code of a 'close' after a signal (JavaScript null)
NullCode == 0 - 1
\* the code of the 'close' that follows the 'error' of a failed spawn
SpawnErrCode == 0 - 2

\* process start: Date.now() when the server starts
StartTime == ONE_HOUR_MS + 1
TickSteps == {1, ONE_HOUR_MS - 1}

NoPath == << >>
NoTitle == << >>

VARIABLES
  now,      \* Date.now()
  store,    \* DOWNLOAD_DIR: path -> [kind, mtime, content, owner]
  cleanup,  \* progress of cleanupOldFiles()
  timers,   \* pending setTimeout callbacks armed by scheduleDelete
  sched,    \* per request: scheduleDelete calls made, timer callbacks run,
            \* 'Auto-deleted' lines logged
  req       \* per request: the handler's locals, its children, its response

vars == << now, store, cleanup, timers, sched, req >>

\* ---------------------------------------------------------------- helpers
\* clock advances used so far (each offset decomposes uniquely)
TicksUsed ==
  ((now - StartTime) % (ONE_HOUR_MS - 1)) + ((now - StartTime) \div (ONE_HOUR_MS - 1))

\* fs.existsSync(p): follows links, true for files and directories
existsSync(p) == p \in DOMAIN store /\ store[p].kind # "link"

\* the store without entry p
Removed(p) == [q \in (DOMAIN store) \ {p} |-> store[q]]

\* fs.unlink / fs.unlinkSync succeed on a file or a link, fail on a directory
\* (EISDIR) and on a missing path (ENOENT)
CanUnlink(p) == p \in DOMAIN store /\ store[p].kind # "dir"

unlink(p) == IF CanUnlink(p) THEN Removed(p) ELSE store

\* the same three on a store value s
existsIn(s, p) == p \in DOMAIN s /\ s[p].kind # "link"
unlinkIn(s, p) ==
  IF p \in DOMAIN s /\ s[p].kind # "dir" THEN [q \in (DOMAIN s) \ {p} |-> s[q]] ELSE s

\* the entries of DOWNLOAD_DIR when the process starts
OldFile == << "old.mp3" >>
EdgeFile == << "edge.mp3" >>
FreshFile == << "fresh.mp3" >>
OldDir == << "olddir" >>
DeadLink == << "deadlink" >>

Entry(kind, mtime) == [kind |-> kind, mtime |-> mtime, content |-> "complete", owner |-> 0]

InitialStore ==
  (OldFile :> Entry("file", StartTime - ONE_HOUR_MS - 1))
  @@ (EdgeFile :> Entry("file", StartTime - ONE_HOUR_MS))
  @@ (FreshFile :> Entry("file", StartTime - 1))
  @@ (OldDir :> Entry("dir", StartTime - ONE_HOUR_MS - 1))
  @@ (DeadLink :> Entry("link", StartTime - ONE_HOUR_MS - 1))

EmptyStore == [p \in {} |-> Entry("file", 0)]

IdleReq ==
  [ pc |-> "idle", id |-> EmptyId, quality |-> << >>, qualityKey |-> << >>, bitrate |-> "",
    videoUrl |-> << >>, path |-> NoPath, fmtIdx |-> 0,
    ytdl |-> 0, ffmpeg |-> 0, opened |-> FALSE,
    finalErrorText |-> << >>, attempted |-> << >>, converted |-> FALSE,
    cached |-> FALSE, meta |-> "", code |-> NullCode, spawnErr |-> {}, closeHandler |-> FALSE, killed |-> {},
    client |-> "open", responses |-> << >> ]

\* ------------------------------------------------------------------- Init
InitCommon ==
  /\ now = StartTime
  /\ cleanup = [pc |-> "readdir", now |-> StartTime, stat |-> {}, unlink |-> {},
                removed |-> {}, failed |-> {}]
  /\ timers = {}
  /\ sched = [r \in Reqs |-> [calls |-> 0, fires |-> 0, deleted |-> 0]]
  /\ req = [r \in Reqs |-> IdleReq]

\* a fresh container: the image creates an empty downloads directory
Init == InitCommon /\ store = EmptyStore

\* a restart over a directory that still holds entries
InitSweep == InitCommon /\ store = InitialStore

\* ------------------------------------------------------------------ clock
Tick ==
  /\ TicksUsed < MaxTicks
  /\ \E d \in TickSteps : now' = now + d
  /\ UNCHANGED << store, cleanup, timers, sched, req >>

\* -------------------------------------------------------- cleanupOldFiles
\* fs.readdir callback: one fs.stat is issued for every listed entry
cleanupReaddir ==
  /\ cleanup.pc = "readdir"
  /\ cleanup' = [cleanup EXCEPT !.pc = "listed", !.stat = DOMAIN store]
  /\ UNCHANGED << now, store, timers, sched, req >>

\* the comparison with the boundary included: age >= ONE_HOUR_MS
ExpiredInclusive(mtime) == (cleanup.now - mtime) >= ONE_HOUR_MS

\* age > ONE_HOUR_MS, measured against the time captured when the sweep began
Expired(mtime) == (cleanup.now - mtime) > ONE_HOUR_MS

\* a stat error that abandons the whole sweep instead of the one entry
cleanupStatAborts(p) ==
  /\ cleanup.pc = "listed"
  /\ p \in cleanup.stat
  /\ IF ~existsSync(p)
       THEN cleanup' = [cleanup EXCEPT !.stat = {}, !.failed = @ \cup {p}]
       ELSE IF Expired(store[p].mtime)
         THEN cleanup' = [cleanup EXCEPT !.stat = @ \ {p}, !.unlink = @ \cup {p}]
         ELSE cleanup' = [cleanup EXCEPT !.stat = @ \ {p}]
  /\ UNCHANGED << now, store, timers, sched, req >>

\* fs.stat callback for entry p
cleanupStat(p) ==
  /\ cleanup.pc = "listed"
  /\ p \in cleanup.stat
  /\ IF ~existsSync(p)
       THEN cleanup' = [cleanup EXCEPT !.stat = @ \ {p}, !.failed = @ \cup {p}]
       ELSE IF Expired(store[p].mtime)
         THEN cleanup' = [cleanup EXCEPT !.stat = @ \ {p}, !.unlink = @ \cup {p}]
         ELSE cleanup' = [cleanup EXCEPT !.stat = @ \ {p}]
  /\ UNCHANGED << now, store, timers, sched, req >>

\* fs.unlink and its callback for entry p
cleanupUnlink(p) ==
  /\ cleanup.pc = "listed"
  /\ p \in cleanup.unlink
  /\ store' = unlink(p)
  /\ cleanup' = [cleanup EXCEPT !.unlink = @ \ {p},
                                !.removed = IF CanUnlink(p) THEN @ \cup {p} ELSE @,
                                !.failed = IF CanUnlink(p) THEN @ ELSE @ \cup {p}]
  /\ UNCHANGED << now, timers, sched, req >>

cleanupDone == cleanup.pc = "listed" /\ cleanup.stat = {} /\ cleanup.unlink = {}

\* ---------------------------------------------------------- scheduleDelete
\* scheduleDelete with the delay forgotten: setTimeout(cb)
scheduleDeleteNoDelay(r, filePath) ==
  /\ timers' = timers \cup {[req |-> r, path |-> filePath, armedAt |-> now, due |-> now]}
  /\ sched' = [sched EXCEPT ![r].calls = @ + 1]

\* setTimeout(..., ONE_HOUR_MS): the timers and the call count after request r
\* schedules the deletion of filePath
scheduleDelete(r, filePath) ==
  /\ timers' = timers \cup {[req |-> r, path |-> filePath, armedAt |-> now,
                              due |-> now + ONE_HOUR_MS]}
  /\ sched' = [sched EXCEPT ![r].calls = @ + 1]

\* the timer callback logging 'Auto-deleted' whatever fs.unlink answered
timerFireLogsAlways(t) ==
  /\ t \in timers
  /\ now >= t.due
  /\ store' = unlink(t.path)
  /\ timers' = timers \ {t}
  /\ sched' = [sched EXCEPT ![t.req] = [@ EXCEPT !.fires = @ + 1, !.deleted = @ + 1]]
  /\ UNCHANGED << now, cleanup, req >>

\* the timer callback: fs.unlink(filePath); 'Auto-deleted' is logged when
\* unlink reports no error, an error is dropped
timerFire(t) ==
  /\ t \in timers
  /\ now >= t.due
  /\ store' = unlink(t.path)
  /\ timers' = timers \ {t}
  /\ sched' = [sched EXCEPT ![t.req] = [@ EXCEPT
                  !.fires = @ + 1,
                  !.deleted = IF CanUnlink(t.path) THEN @ + 1 ELSE @]]
  /\ UNCHANGED << now, cleanup, req >>

\* ------------------------------------------------------- pure functions
\* String.prototype.toLowerCase, letter by letter
UpperCase ==
  << "A", "B", "C", "D", "E", "F", "G", "H", "I", "J", "K", "L", "M",
     "N", "O", "P", "Q", "R", "S", "T", "U", "V", "W", "X", "Y", "Z" >>
LowerCase ==
  << "a", "b", "c", "d", "e", "f", "g", "h", "i", "j", "k", "l", "m",
     "n", "o", "p", "q", "r", "s", "t", "u", "v", "w", "x", "y", "z" >>

toLowerCaseChar(c) ==
  IF \E i \in 1..Len(UpperCase) : UpperCase[i] = c
    THEN LowerCase[CHOOSE i \in 1..Len(UpperCase) : UpperCase[i] = c]
    ELSE c

toLowerCase(q) == [i \in 1..Len(q) |-> toLowerCaseChar(q[i])]

\* the tier looked up without lower-casing the segment
qualityKeyOfCaseSensitive(quality) ==
  LET rawQuality == IF quality = << >> THEN High ELSE quality
  IN IF rawQuality \in {Low, Medium, High} THEN rawQuality ELSE High

\* rawQuality = (req.params.quality || 'high').toLowerCase();
\* ['low','medium','high'].includes(rawQuality) ? rawQuality : 'high'
qualityKeyOf(quality) ==
  LET rawQuality == toLowerCase(IF quality = << >> THEN High ELSE quality)
  IN IF rawQuality \in {Low, Medium, High} THEN rawQuality ELSE High

Digits == << "0", "1", "2", "3", "4", "5", "6", "7", "8", "9" >>

\* the character class [a-zA-Z0-9_-]
IdAlphabet ==
  {LowerCase[i] : i \in 1..Len(LowerCase)} \cup {UpperCase[i] : i \in 1..Len(UpperCase)}
    \cup {Digits[i] : i \in 1..Len(Digits)} \cup {"_", "-"}

\* decodeURIComponent on a path segment: an escape stands for its character
decodeChar(c) ==
  CASE c = "%2F" -> "/"
    [] c = "%3A" -> ":"
    [] OTHER -> c

decodeURIComponent(seg) == [i \in 1..Len(seg) |-> decodeChar(seg[i])]

\* /^[a-zA-Z0-9_-]{11}$/.test(idParam)
IsVideoId(id) == Len(id) = 11 /\ \A i \in 1..Len(id) : id[i] \in IdAlphabet

\* idParam.startsWith('http')
startsWithHttp(id) == Len(id) >= 4 /\ SubSeq(id, 1, 4) = << "h", "t", "t", "p" >>

WatchUrl(id) == << "https://www.youtube.com/watch?v=" >> \o id

\* the two tests in the other order: anything beginning with "http" is
\* taken for a URL
videoUrlOfUrlFirst(id) == IF startsWithHttp(id) THEN id ELSE WatchUrl(id)

\* strict id ? watch URL : (startsWith('http') ? verbatim : watch URL)
videoUrlOf(id) ==
  IF IsVideoId(id) THEN WatchUrl(id)
  ELSE IF startsWithHttp(id) THEN id ELSE WatchUrl(id)

\* sanitize-filename: drops the characters no filename may hold
IllegalChars == { "/", "?", "<", ">", ":", "*", "|" }
sanitize(s) == SelectSeq(s, LAMBDA c : c \notin IllegalChars)

\* String.prototype.slice(0, n)
slice(s, n) == SubSeq(s, 1, IF Len(s) < n THEN Len(s) ELSE n)

\* base of the file name: the title, else the id, else the sanitized input
baseOf(id, safeTitle) ==
  IF safeTitle # NoTitle THEN safeTitle
  ELSE IF IsVideoId(id) THEN id ELSE slice(sanitize(id), 40)

\* path.join(DOWNLOAD_DIR, `${base}-${qualityKey}-${ts}.mp3`)
filePathOf(base, qualityKey, ts) == << base, qualityKey, ts >>

\* a file ffmpeg has just created at its output path
NewFile(r) == [kind |-> "file", mtime |-> now, content |-> "partial", owner |-> r]

\* --------------------------------------------------------- responses
\* res.headersSent, and a response sent unless one has been started
headersSent(rq) == rq.responses # << >>

send(rq, status, body) ==
  IF headersSent(rq) THEN rq.responses
  ELSE Append(rq.responses, [status |-> status, body |-> body])

\* ------------------------------------------------------- fetchMetadata
\* the child of fetchMetadata as its listeners see it: the 'error' event,
\* or 'close' with the exit code after `out` has been collected
MetaProc(outcome) ==
  CASE outcome = "title" -> [error |-> FALSE, code |-> 0, out |-> "{title}"]
    [] outcome = "nonzero" -> [error |-> FALSE, code |-> 1, out |-> ""]
    [] outcome = "empty" -> [error |-> FALSE, code |-> 0, out |-> ""]
    [] outcome = "malformed" -> [error |-> FALSE, code |-> 0, out |-> "{tit"]
    [] OTHER -> [error |-> TRUE, code |-> 0 - 2, out |-> ""]

\* JSON.parse(out): the object, or a SyntaxError
JSONparse(out) ==
  IF out = "{title}" THEN [thrown |-> FALSE, title |-> MetaTitle]
  ELSE [thrown |-> TRUE, title |-> NoTitle]

\* how the promise settles on 'close': resolve(j), or resolve(null)
metaOnClose(proc) ==
  IF proc.code = 0 /\ proc.out # "" /\ ~JSONparse(proc.out).thrown
    THEN [settled |-> "resolve", title |-> JSONparse(proc.out).title]
    ELSE [settled |-> "resolve", title |-> NoTitle]

\* fetchMetadata of src/unnamed/part_002: proc.on('error') resolves null
fetchMetadata(outcome) ==
  IF MetaProc(outcome).error
    THEN [settled |-> "resolve", title |-> NoTitle]
    ELSE metaOnClose(MetaProc(outcome))

\* fetchMetadata of src/index.js: proc.on('error') rejects
fetchMetadataSingle(outcome) ==
  IF MetaProc(outcome).error
    THEN [settled |-> "reject", title |-> NoTitle]
    ELSE metaOnClose(MetaProc(outcome))

\* the await outside any try block: a rejection reaches the route's catch
awaitMetadataUncaught(result) ==
  [ thrown |-> result.settled = "reject",
    safeTitle |-> IF result.settled = "resolve" /\ result.title # NoTitle
                    THEN slice(sanitize(result.title), 120) ELSE NoTitle ]

\* try { meta = await fetchMetadata(videoUrl); if (meta && meta.title) ... }
\* catch (e) { warn }: a rejection is swallowed, safeTitle stays null
awaitMetadata(result) ==
  [ thrown |-> FALSE,
    safeTitle |-> IF result.settled = "resolve" /\ result.title # NoTitle
                    THEN slice(sanitize(result.title), 120) ELSE NoTitle ]

\* ------------------------------------------------- multi-format handler
\* clients are numbered in the order their requests arrive
NextToArrive(r) == \A q \in Reqs : q < r => req[q].pc # "idle"

\* the router's test of the path against '/:quality/id=:id': a parameter
\* stands for one or more characters other than "/"
routeMatches(id) == Len(id) >= 1 /\ \A i \in 1..Len(id) : id[i] # "/"

\* a GET for /<quality>/id=<id>: the router's answer when the path does not
\* match, else the handler, with the decoded parameters, up to
\* `await fetchMetadata(videoUrl)`
route(r, id, quality) ==
  /\ req[r].pc = "idle"
  /\ NextToArrive(r)
  /\ LET idParam == decodeURIComponent(id)
     IN IF ~routeMatches(id)
          THEN req' = [req EXCEPT ![r] = [@ EXCEPT
                 !.pc = "done", !.id = idParam, !.quality = quality,
                 !.responses = Append(@, [status |-> 404, body |-> "Cannot GET"])]]
        ELSE IF idParam = EmptyId
          THEN req' = [req EXCEPT ![r] = [@ EXCEPT
                 !.pc = "done", !.id = idParam, !.quality = quality,
                 !.responses = Append(@, [status |-> 400, body |-> "Missing id"])]]
          ELSE req' = [req EXCEPT ![r] = [@ EXCEPT
                 !.pc = "meta", !.id = idParam, !.quality = quality,
                 !.qualityKey = qualityKeyOf(quality),
                 !.bitrate = qualityMap[qualityKeyOf(quality)],
                 !.videoUrl = videoUrlOf(idParam)]]
  /\ UNCHANGED << now, store, cleanup, timers, sched >>

\* one iteration of the formats loop up to `await new Promise(...)`:
\* both children are spawned for formatsToTry[k]
spawnAttempt(rq, k) ==
  [rq EXCEPT !.pc = "converting", !.fmtIdx = k,
             !.attempted = Append(@, formatsToTry[k]),
             !.ytdl = @ + 1, !.ffmpeg = @ + 1, !.opened = FALSE, !.spawnErr = {}]

\* the cache branch without its `return`: the file is served and the
\* handler still runs into the first attempt
fetchMetadataCloseFallsThrough(r, outcome) ==
  /\ req[r].pc = "meta"
  /\ LET m == awaitMetadata(fetchMetadata(outcome))
         ts == now
         filePath == filePathOf(baseOf(req[r].id, m.safeTitle), req[r].qualityKey, ts)
         rq == [req[r] EXCEPT !.path = filePath, !.meta = outcome]
     IN IF existsSync(filePath)
          THEN req' = [req EXCEPT ![r] = spawnAttempt([rq EXCEPT !.cached = TRUE], 1)]
          ELSE req' = [req EXCEPT ![r] = spawnAttempt(rq, 1)]
  /\ UNCHANGED << now, store, cleanup, timers, sched >>

\* the 'close' of fetchMetadata's child resolves the promise; the handler
\* runs on to the cache check and, past it, into the first attempt
fetchMetadataClose(r, outcome) ==
  /\ req[r].pc = "meta"
  /\ LET m == awaitMetadata(fetchMetadata(outcome))
         ts == now
         filePath == filePathOf(baseOf(req[r].id, m.safeTitle), req[r].qualityKey, ts)
         rq == [req[r] EXCEPT !.path = filePath, !.meta = outcome]
     IN IF m.thrown
          THEN req' = [req EXCEPT ![r] = [@ EXCEPT
                 !.pc = "done", !.meta = outcome,
                 !.responses = send(req[r], 500, << "Server error" >>)]]
        ELSE IF existsSync(filePath)
          THEN req' = [req EXCEPT ![r] = [rq EXCEPT !.pc = "sending", !.cached = TRUE]]
          ELSE req' = [req EXCEPT ![r] = spawnAttempt(rq, 1)]
  /\ UNCHANGED << now, store, cleanup, timers, sched >>

\* ------------------------------------------------ the children (environment)
Converting(r) == req[r].pc = "converting"

\* ffmpeg creates its output file; without -y it refuses an existing one
ffmpegOpen(r) ==
  /\ Converting(r) /\ req[r].ffmpeg > 0 /\ "ffmpeg" \notin req[r].killed
  /\ req[r].spawnErr = {}
  /\ ~req[r].opened
  /\ req[r].path \notin DOMAIN store
  /\ store' = (req[r].path :> NewFile(r)) @@ store
  /\ req' = [req EXCEPT ![r].opened = TRUE]
  /\ UNCHANGED << now, cleanup, timers, sched >>

\* an extractor of this request ends; nothing listens for its exit
ytdlExit(r) ==
  /\ req[r].ytdl > 0
  /\ req' = [req EXCEPT ![r].ytdl = @ - 1]
  /\ UNCHANGED << now, store, cleanup, timers, sched >>

\* the client goes away; the multi-format handler registers no listener
clientClose(r) ==
  /\ req[r].pc \in {"meta", "converting", "sending", "streaming"}
  /\ req[r].client = "open"
  /\ req' = [req EXCEPT ![r].client = "closed"]
  /\ UNCHANGED << now, store, cleanup, timers, sched >>

\* ffmpeg ending with `code` leaves its own output complete only on exit 0
AfterExit(r, code) ==
  IF code = 0 /\ req[r].path \in DOMAIN store /\ store[req[r].path].owner = r
    THEN [store EXCEPT ![req[r].path].content = "complete", ![req[r].path].mtime = now]
    ELSE store

\* ytdlStderr declared once outside the loop: text of the first attempt
\* shows up in every later section
ytdlStderrShared(rq, err) == IF err THEN << "yt-dlp", 1 >> ELSE << >>

\* what the two stderr 'data' listeners of the running attempt have
\* accumulated when 'close' arrives: nothing, or text of that attempt's child
ytdlStderr(rq, err) ==
  IF "ytdl" \in rq.spawnErr THEN << "yt-dlp spawn error", rq.fmtIdx >>
  ELSE IF err THEN << "yt-dlp", rq.fmtIdx >> ELSE << >>
ffmpegStderr(rq, err) ==
  IF "ffmpeg" \in rq.spawnErr THEN << "ffmpeg spawn error", rq.fmtIdx >>
  ELSE IF err THEN << "ffmpeg", rq.fmtIdx >> ELSE << >>

\* `--- Attempt format=... ---` section of one failed attempt
AttemptText(rq, code, err) ==
  [ fmt |-> formatsToTry[rq.fmtIdx],
    ytdlStderr |-> IF ytdlStderr(rq, err) = << >> THEN << "(none)" >> ELSE ytdlStderr(rq, err),
    ffmpegStderr |-> IF ffmpegStderr(rq, err) = << >> THEN << "(none)" >> ELSE ffmpegStderr(rq, err),
    code |-> code ]

\* the promise resolved by something other than the 'close' of ffmpeg:
\* the process is still there when the loop goes on
awaitedEarly(rq) == rq

\* the handler resumes only when the 'close' of the attempt's ffmpeg has
\* arrived: that process is gone
awaited(rq) == [rq EXCEPT !.ffmpeg = @ - 1]

\* the loop without its `return` on success: the next format is tried anyway
ffmpegCloseNoReturn(r, code, err) ==
  /\ Converting(r) /\ req[r].ffmpeg > 0 /\ req[r].spawnErr = {}
  /\ code = 0 => req[r].opened
  /\ LET st == AfterExit(r, code)
         rq == awaited(req[r])
         failed == [rq EXCEPT !.finalErrorText = Append(@, AttemptText(rq, code, err))]
         done == IF code = 0 /\ existsIn(st, rq.path)
                   THEN [rq EXCEPT !.converted = TRUE] ELSE failed
     IN /\ store' = IF done.converted THEN st ELSE unlinkIn(st, rq.path)
        /\ IF rq.fmtIdx < Len(formatsToTry)
             THEN req' = [req EXCEPT ![r] = spawnAttempt(done, rq.fmtIdx + 1)]
             ELSE req' = [req EXCEPT ![r] = [done EXCEPT !.pc = "done"]]
  /\ UNCHANGED << now, cleanup, timers, sched >>

\* success judged by the exit code alone, without looking for the file
ffmpegCloseCodeOnly(r, code, err) ==
  /\ Converting(r) /\ req[r].ffmpeg > 0 /\ req[r].spawnErr = {}
  /\ code = 0 => req[r].opened
  /\ LET st == AfterExit(r, code)
         rq == [awaited(req[r]) EXCEPT !.code = code]
         failed == [rq EXCEPT !.finalErrorText = Append(@, AttemptText(rq, code, err))]
     IN IF code = 0
          THEN /\ store' = st
               /\ req' = [req EXCEPT ![r] = [rq EXCEPT !.converted = TRUE, !.pc = "sending"]]
          ELSE /\ store' = unlinkIn(st, rq.path)
               /\ IF rq.fmtIdx < Len(formatsToTry)
                    THEN req' = [req EXCEPT ![r] = spawnAttempt(failed, rq.fmtIdx + 1)]
                    ELSE req' = [req EXCEPT ![r] = [failed EXCEPT
                           !.pc = "done",
                           !.responses = send(failed, 500,
                               << "Conversion failed. Debug info:", failed.finalErrorText >>)]]
  /\ UNCHANGED << now, cleanup, timers, sched >>

\* the loop giving up at the first failed attempt
ffmpegCloseGivesUp(r, code, err) ==
  /\ Converting(r) /\ req[r].ffmpeg > 0 /\ req[r].spawnErr = {}
  /\ code = 0 => req[r].opened
  /\ LET st == AfterExit(r, code)
         rq == [awaited(req[r]) EXCEPT !.code = code]
         failed == [rq EXCEPT !.finalErrorText = Append(@, AttemptText(rq, code, err))]
     IN IF code = 0 /\ existsIn(st, rq.path)
          THEN /\ store' = st
               /\ req' = [req EXCEPT ![r] = [rq EXCEPT !.converted = TRUE, !.pc = "sending"]]
          ELSE /\ store' = unlinkIn(st, rq.path)
               /\ req' = [req EXCEPT ![r] = [failed EXCEPT
                      !.pc = "done",
                      !.responses = send(failed, 500,
                          << "Conversion failed. Debug info:", failed.finalErrorText >>)]]
  /\ UNCHANGED << now, cleanup, timers, sched >>

\* ffmpeg.on('close') resolves the attempt's promise; the loop body runs on:
\* success -> res.download, failure -> record, unlink, next format or the 500
ffmpegClose(r, code, err) ==
  /\ Converting(r) /\ req[r].ffmpeg > 0 /\ req[r].spawnErr = {}
  /\ code = 0 => req[r].opened
  /\ LET st == AfterExit(r, code)
         rq == [awaited(req[r]) EXCEPT !.code = code]
         failed == [rq EXCEPT !.finalErrorText = Append(@, AttemptText(rq, code, err))]
     IN IF code = 0 /\ existsIn(st, rq.path)
          THEN /\ store' = st
               /\ req' = [req EXCEPT ![r] = [rq EXCEPT !.converted = TRUE, !.pc = "sending"]]
          ELSE /\ store' = unlinkIn(st, rq.path)
               /\ IF rq.fmtIdx < Len(formatsToTry)
                    THEN req' = [req EXCEPT ![r] = spawnAttempt(failed, rq.fmtIdx + 1)]
                    ELSE req' = [req EXCEPT ![r] = [failed EXCEPT
                           !.pc = "done",
                           !.responses = send(failed, 500,
                               << "Conversion failed. Debug info:", failed.finalErrorText >>)]]
  /\ UNCHANGED << now, cleanup, timers, sched >>

\* ytdl.on('error'): yt-dlp could not be spawned while ffmpeg runs.  The
\* text goes to ytdlStderr; the stdout of the failed child never ends, so
\* the stdin of ffmpeg is never closed and ffmpeg waits for input
ytdlSpawnError(r) ==
  /\ Converting(r) /\ req[r].ytdl > 0 /\ req[r].ffmpeg > 0
  /\ ~req[r].opened /\ req[r].spawnErr = {}
  /\ req' = [req EXCEPT ![r] = [@ EXCEPT !.ytdl = @ - 1, !.spawnErr = {"ytdl"}]]
  /\ UNCHANGED << now, store, cleanup, timers, sched >>

\* ffmpeg.on('error') and the 'close' that follows it: ffmpeg could not be
\* spawned (`both`: yt-dlp neither).  The text goes to ffmpegStderr, the
\* promise resolves with the error code and the loop body runs on
ffmpegSpawnError(r, both) ==
  /\ Converting(r) /\ req[r].ffmpeg > 0 /\ req[r].ytdl > 0
  /\ ~req[r].opened /\ req[r].spawnErr = {}
  /\ LET rq == [awaited(req[r]) EXCEPT
                  !.code = SpawnErrCode,
                  !.spawnErr = IF both THEN {"ytdl", "ffmpeg"} ELSE {"ffmpeg"},
                  !.ytdl = IF both THEN @ - 1 ELSE @]
         failed == [rq EXCEPT
                  !.finalErrorText = Append(@, AttemptText(rq, SpawnErrCode, FALSE))]
     IN /\ store' = unlinkIn(store, rq.path)
        /\ IF rq.fmtIdx < Len(formatsToTry)
             THEN req' = [req EXCEPT ![r] = spawnAttempt(failed, rq.fmtIdx + 1)]
             ELSE req' = [req EXCEPT ![r] = [failed EXCEPT
                    !.pc = "done",
                    !.responses = send(failed, 500,
                        << "Conversion failed. Debug info:", failed.finalErrorText >>)]]
  /\ UNCHANGED << now, cleanup, timers, sched >>

\* res.download(filePath, filename, cb), first half: the file is opened and
\* the headers go out, or the callback gets the error at once
downloadStart(r) ==
  /\ req[r].pc = "sending"
  /\ IF req[r].client = "closed" \/ ~existsSync(req[r].path)
       THEN req' = [req EXCEPT ![r].pc = "done"]
       ELSE req' = [req EXCEPT ![r] = [@ EXCEPT
              !.pc = "streaming",
              !.responses = send(req[r], 200,
                  << "attachment", req[r].path, store[req[r].path].content >>)]]
  /\ UNCHANGED << now, store, cleanup, timers, sched >>

\* second half: cb(err) when the client went away mid-transfer, else cb()
\* and `if (!err) scheduleDelete(filePath)`
downloadEnd(r) ==
  /\ req[r].pc = "streaming"
  /\ req' = [req EXCEPT ![r].pc = "done"]
  /\ IF req[r].client = "closed"
       THEN UNCHANGED << timers, sched >>
       ELSE scheduleDelete(r, req[r].path)
  /\ UNCHANGED << now, store, cleanup >>

\* ------------------------------------------- single-attempt handler
\* fetchMetadata's promise settles; src/index.js runs on to the cache check
\* and, past it, spawns yt-dlp and ffmpeg once and registers its listeners
fetchMetadataCloseSingle(r, outcome) ==
  /\ req[r].pc = "meta"
  /\ LET m == awaitMetadata(fetchMetadataSingle(outcome))
         ts == now
         filePath == filePathOf(baseOf(req[r].id, m.safeTitle), req[r].qualityKey, ts)
         rq == [req[r] EXCEPT !.path = filePath, !.meta = outcome]
     IN IF m.thrown
          THEN req' = [req EXCEPT ![r] = [@ EXCEPT
                 !.pc = "done", !.meta = outcome,
                 !.responses = send(req[r], 500, << "Server error" >>)]]
        ELSE IF existsSync(filePath)
          THEN req' = [req EXCEPT ![r] = [rq EXCEPT !.pc = "sending", !.cached = TRUE]]
          ELSE req' = [req EXCEPT ![r] = [rq EXCEPT
                 !.pc = "converting", !.fmtIdx = Len(formatsToTry),
                 !.attempted = Append(@, "bestaudio"),
                 !.ytdl = @ + 1, !.ffmpeg = @ + 1, !.opened = FALSE,
                 !.closeHandler = TRUE]]
  /\ UNCHANGED << now, store, cleanup, timers, sched >>

\* ytdl.kill('SIGKILL'); ffmpeg.kill('SIGKILL'): the children signalled
kill(rq) ==
  rq.killed \cup (IF rq.ytdl > 0 THEN {"ytdl"} ELSE {})
            \cup (IF rq.ffmpeg > 0 THEN {"ffmpeg"} ELSE {})

\* req.on('close'): SIGKILL to both children; a child that has already
\* ended is not signalled
reqClose(r) ==
  /\ req[r].pc \in {"meta", "converting", "sending", "streaming"}
  /\ req[r].client = "open"
  /\ IF req[r].closeHandler
       THEN req' = [req EXCEPT ![r] = [@ EXCEPT
              !.client = "closed",
              !.killed = kill(req[r]),
              !.ytdl = 0]]
       ELSE req' = [req EXCEPT ![r].client = "closed"]
  /\ UNCHANGED << now, store, cleanup, timers, sched >>

\* ffmpeg.on('close') of src/index.js; a killed ffmpeg closes with code
\* null, and one that had already exited when the signal was sent closes
\* with its own exit code
ffmpegCloseSingle(r, code) ==
  /\ Converting(r)
  /\ req[r].ffmpeg > 0
  /\ \/ code \in ExitCodes /\ (code = 0 => req[r].opened)
     \/ "ffmpeg" \in req[r].killed /\ code = NullCode
  /\ LET st == AfterExit(r, code)
         rq == [req[r] EXCEPT !.ffmpeg = @ - 1, !.code = code]
     IN IF code = 0 /\ existsIn(st, rq.path)
          THEN /\ store' = st
               /\ req' = [req EXCEPT ![r] = [rq EXCEPT !.converted = TRUE, !.pc = "sending"]]
          ELSE /\ store' = unlinkIn(st, rq.path)
               /\ req' = [req EXCEPT ![r] = [rq EXCEPT
                      !.pc = "done",
                      !.responses = send(rq, 500, << "Conversion failed" >>)]]
  /\ UNCHANGED << now, cleanup, timers, sched >>

\* res.download of src/index.js, first half; the converted branch answers
\* 500 when nothing was sent yet; the cached branch passes no callback, so
\* an error other than an aborted connection goes to the default error
\* handler of the framework, which answers 404 for a missing file
downloadStartSingle(r) ==
  /\ req[r].pc = "sending"
  /\ IF req[r].client = "closed" \/ ~existsSync(req[r].path)
       THEN req' = [req EXCEPT ![r] = [@ EXCEPT
              !.pc = "done",
              !.responses = IF ~req[r].cached
                              THEN send(req[r], 500, << "Error sending file" >>)
                            ELSE IF req[r].client = "closed" THEN @
                            ELSE send(req[r], 404, << "Not Found" >>)]]
       ELSE req' = [req EXCEPT ![r] = [@ EXCEPT
              !.pc = "streaming",
              !.responses = send(req[r], 200,
                  << "attachment", req[r].path, store[req[r].path].content >>)]]
  /\ UNCHANGED << now, store, cleanup, timers, sched >>

\* second half: the callback schedules the deletion only without an error
downloadEndSingle(r) ==
  /\ req[r].pc = "streaming"
  /\ req' = [req EXCEPT ![r].pc = "done"]
  /\ IF req[r].client = "closed" \/ req[r].cached
       THEN UNCHANGED << timers, sched >>
       ELSE scheduleDelete(r, req[r].path)
  /\ UNCHANGED << now, store, cleanup >>

\* ------------------------------------------------------- uncaught faults
\* what is left of a request when the process exits: one that is not over
\* gets no answer, one that has not arrived yet finds no server
Down(rq) == IF rq.pc = "done" THEN rq ELSE [rq EXCEPT !.pc = "down"]

\* ytdl.stdout.pipe(ffmpeg.stdin): ffmpeg has ended while yt-dlp still
\* writes and the write fails (EPIPE) before the exit has been handled;
\* ffmpeg.stdin emits 'error', nothing listens for it on the stream, the
\* error is thrown and the process exits; its timers go with it
stdinError(r) ==
  /\ Converting(r) /\ req[r].ytdl > 0 /\ req[r].ffmpeg > 0
  /\ req' = [q \in Reqs |-> Down(req[q])]
  /\ timers' = {}
  /\ cleanup' = [cleanup EXCEPT !.pc = "down"]
  /\ UNCHANGED << now, store, sched >>

\* ------------------------------------------------------------------ Specs
\* the multi-format handler serving the clients in C; E is the stderr the
\* children may have produced
Handler(C, E) ==
  \/ \E r \in C, id \in Ids, q \in Qualities : route(r, id, q)
  \/ \E r \in C, o \in MetaOutcomes : fetchMetadataClose(r, o)
  \/ \E r \in C : ffmpegOpen(r)
  \/ \E r \in C, code \in ExitCodes, err \in E : ffmpegClose(r, code, err)
  \/ \E r \in C : downloadStart(r)
  \/ \E r \in C : downloadEnd(r)

\* the extractors ending and the clients leaving
Environment(C) ==
  \/ \E r \in C : ytdlExit(r)
  \/ \E r \in C : clientClose(r)

\* the single-attempt handler serving the clients in C
HandlerSingle(C) ==
  \/ \E r \in C, id \in Ids, q \in Qualities : route(r, id, q)
  \/ \E r \in C, o \in MetaOutcomes : fetchMetadataCloseSingle(r, o)
  \/ \E r \in C : ffmpegOpen(r)
  \/ \E r \in C, code \in ExitCodes \cup {NullCode} : ffmpegCloseSingle(r, code)
  \/ \E r \in C : downloadStartSingle(r)
  \/ \E r \in C : downloadEndSingle(r)

EnvironmentSingle(C) ==
  \/ \E r \in C : ytdlExit(r)
  \/ \E r \in C : reqClose(r)

Timers == \E t \in timers : timerFire(t)

Sweep == \E p \in DOMAIN InitialStore : cleanupStat(p) \/ cleanupUnlink(p)

\* part_002, one client, the clock running
Next == Tick \/ cleanupReaddir \/ Timers \/ Handler(Solo, BOOLEAN) \/ Environment(Solo)
Spec == Init /\ [][Next]_vars

\* part_002, two clients inside one millisecond
NextSameMs == cleanupReaddir \/ Handler(Pair, {TRUE})
SpecSameMs == Init /\ [][NextSameMs]_vars

\* src/index.js, one client, the clock running
NextSingle == Tick \/ cleanupReaddir \/ Timers \/ HandlerSingle(Solo) \/ EnvironmentSingle(Solo)
SpecSingle == Init /\ [][NextSingle]_vars

\* src/index.js, three clients inside one millisecond
NextSingleSameMs == cleanupReaddir \/ HandlerSingle(Trio)
SpecSingleSameMs == Init /\ [][NextSingleSameMs]_vars

\* src/index.js, two clients inside one millisecond, with the stream errors
\* of the pipe between the children
NextFault ==
  \/ cleanupReaddir
  \/ HandlerSingle(Pair)
  \/ EnvironmentSingle(Pair)
  \/ \E r \in Pair : stdinError(r)
SpecFault == Init /\ [][NextFault]_vars

\* src/index.js, two clients that may arrive inside one millisecond, the
\* clock and the deletion timers
NextExpiry == Tick \/ Timers \/ HandlerSingle(Pair)
SpecExpiry == Init /\ [][NextExpiry]_vars

\* part_002, one client, with the children failing to spawn
NextSpawn ==
  \/ cleanupReaddir
  \/ Handler(Solo, BOOLEAN)
  \/ \E r \in Solo : ytdlExit(r)
  \/ \E r \in Solo : ytdlSpawnError(r)
  \/ \E r \in Solo, both \in BOOLEAN : ffmpegSpawnError(r, both)
SpecSpawn == Init /\ [][NextSpawn]_vars

\* the resolution of the inputs: two requests over the quality and
\* identifier segments
NextResolve == \E r \in Pair, id \in IdInputs, q \in QualityInputs : route(r, id, q)
SpecResolve == Init /\ [][NextResolve]_vars

\* a restart over a directory that holds entries, one client of part_002
NextSweep == Tick \/ cleanupReaddir \/ Sweep \/ Timers \/ Handler(Solo, {TRUE})
SpecSweep == InitSweep /\ [][NextSweep]_vars

\* ================================================================ claims
\* C1: within one request the formats are attempted in the order of
\* formatsToTry, each at most once, and the first successful attempt is the
\* last one: k-1 failed attempts are on record when attempt k succeeds and
\* no format after it is ever attempted.
C1_OrderedStopAtFirstSuccess ==
  \A r \in Reqs :
    LET a == req[r].attempted
        f == req[r].finalErrorText
    IN /\ Len(a) <= Len(formatsToTry)
       /\ \A i \in 1..Len(a) : a[i] = formatsToTry[i]
       /\ \A i \in 1..Len(f) : f[i].fmt = formatsToTry[i]
       /\ Len(a) \in {Len(f), Len(f) + 1}
       /\ req[r].converted => Len(a) = Len(f) + 1 /\ req[r].ffmpeg = 0

\* formats 1 and 2 failed, format 3 succeeded, the request is over
C1_Witness ==
  \E r \in Reqs :
    /\ req[r].converted /\ req[r].pc = "done"
    /\ Len(req[r].attempted) = 3 /\ Len(req[r].finalErrorText) = 2

\* the sections of a 500 body are the four attempts in order, each with
\* the stderr of the two children of that very attempt
SectionsInOrder(text) ==
  /\ Len(text) = Len(formatsToTry)
  /\ \A i \in 1..Len(text) :
       /\ text[i].fmt = formatsToTry[i]
       /\ text[i].ytdlStderr \in {<< "(none)" >>, << "yt-dlp", i >>}
       /\ text[i].ffmpegStderr \in {<< "(none)" >>, << "ffmpeg", i >>}
       /\ text[i].code \in ExitCodes

\* C3: once all four attempts of a request have failed, its one response is
\* the 500 whose body holds exactly four attempt sections, in the order of
\* formatsToTry, each with that attempt's yt-dlp stderr, ffmpeg stderr and
\* exit code.
C3_ExhaustionDiagnostics ==
  \A r \in Reqs :
    Len(req[r].finalErrorText) = Len(formatsToTry) =>
      /\ Len(req[r].responses) = 1
      /\ req[r].responses[1].status = 500
      /\ req[r].responses[1].body[1] = "Conversion failed. Debug info:"
      /\ SectionsInOrder(req[r].responses[1].body[2])

\* four failures: one without stderr, the next with stderr of its own
C3_Witness ==
  \E r \in Reqs :
    /\ req[r].pc = "done" /\ Len(req[r].responses) = 1
    /\ req[r].responses[1].status = 500
    /\ Len(req[r].responses[1].body[2]) = 4
    /\ req[r].responses[1].body[2][1].ytdlStderr = << "(none)" >>
    /\ req[r].responses[1].body[2][2].ytdlStderr = << "yt-dlp", 2 >>
    /\ req[r].responses[1].body[2][4].ffmpegStderr = << "ffmpeg", 4 >>

\* C8 as stated: a request never has two extractors or two transcoders
\* running at once.
C8_Original == \A r \in Reqs : req[r].ytdl <= 1 /\ req[r].ffmpeg <= 1

\* C8 amended: a request never has two transcoders running, and an attempt
\* is started only when every earlier attempt's transcoder has closed and
\* its failure is on record; extractors are not awaited, so up to one per
\* attempt started may still be running.
C8_OneTranscoderAtATime ==
  \A r \in Reqs :
    /\ req[r].ffmpeg <= 1
    /\ req[r].ffmpeg = 1 => Len(req[r].attempted) = Len(req[r].finalErrorText) + 1
    /\ req[r].ytdl <= Len(req[r].attempted)

\* the second attempt runs while the extractor of the first is still alive
C8_Witness ==
  \E r \in Reqs : req[r].ytdl = 2 /\ req[r].ffmpeg = 1 /\ req[r].fmtIdx = 2

\* C10: a timer armed by scheduleDelete does not run before ONE_HOUR_MS has
\* passed since the call, leaves no file at its path when it runs, and runs
\* once: every call is matched by one pending timer or one run, never more.
C10_OneShotAfterOneHour ==
  [][ /\ \A t \in timers \ timers' :
           /\ now - t.armedAt >= ONE_HOUR_MS
           /\ t.path \notin DOMAIN store'
      /\ \A t \in timers' \ timers : t.armedAt = now
      /\ \A r \in Reqs :
           sched'[r].fires + Cardinality({t \in timers' : t.req = r}) = sched'[r].calls
    ]_vars

\* the timer of a served file has run and the file is gone
C10_Witness ==
  \E r \in Reqs :
    /\ sched[r].calls = 1 /\ sched[r].fires = 1
    /\ req[r].converted /\ req[r].path \notin DOMAIN store
    /\ now >= StartTime + ONE_HOUR_MS

\* C2 as stated: on the step that evaluates an attempt (its ffmpeg has
\* closed) the output path holds a complete file if the attempt was judged
\* successful and no file if it was judged failed.
C2_Original ==
  [][ \A r \in Reqs :
        req'[r].ffmpeg < req[r].ffmpeg =>
          IF req'[r].converted
            THEN /\ req[r].path \in DOMAIN store'
                 /\ store'[req[r].path].content = "complete"
            ELSE req[r].path \notin DOMAIN store'
    ]_vars

\* C4 as stated: when the client of a request goes away while its attempt is
\* in flight, every child of the attempt that is still running is sent
\* SIGKILL, a killed ffmpeg never counts as a success, and from then on the
\* request spawns nothing.  The listener of src/index.js does this; the
\* multi-format handler has no listener.
C4_Original ==
  [][ \A r \in Reqs :
        /\ (Converting(r) /\ req[r].client = "open" /\ req'[r].client = "closed") =>
             /\ req[r].ytdl > 0 => "ytdl" \in req'[r].killed /\ req'[r].ytdl = 0
             /\ req[r].ffmpeg > 0 => "ffmpeg" \in req'[r].killed
        /\ (req[r].client = "closed" /\ req[r].pc # "meta") =>
             /\ req'[r].attempted = req[r].attempted
             /\ req'[r].ytdl <= req[r].ytdl
             /\ req'[r].ffmpeg <= req[r].ffmpeg
        /\ ("ffmpeg" \in req[r].killed /\ req'[r].ffmpeg < req[r].ffmpeg) =>
             ~req'[r].converted /\ req[r].path \notin DOMAIN store'
    ]_vars

\* C5 as stated: two requests in progress at once for the same id and
\* quality never have the same output path.
C5_Original ==
  \A r1, r2 \in Reqs :
    ( /\ r1 # r2
      /\ req[r1].pc \notin {"idle", "done"} /\ req[r2].pc \notin {"idle", "done"}
      /\ req[r1].path # NoPath /\ req[r2].path # NoPath
      /\ req[r1].id = req[r2].id /\ req[r1].qualityKey = req[r2].qualityKey )
    => req[r1].path # req[r2].path

\* C6 as stated: the file of a request whose conversion succeeded is in the
\* store for as long as no deletion timer of that request has run.
C6_Original ==
  \A r \in Reqs :
    (req[r].converted /\ sched[r].fires = 0) => existsSync(req[r].path)

\* C7 as stated: a request whose conversion succeeded ends with the file
\* sent and a deletion of it scheduled.
C7_Original ==
  \A r \in Reqs :
    (req[r].converted /\ req[r].pc = "done") => sched[r].calls >= 1

\* regular files of the directory older than the window when the process starts
ExpiredAtStartup ==
  { p \in DOMAIN InitialStore :
      /\ InitialStore[p].kind = "file"
      /\ StartTime - InitialStore[p].mtime > ONE_HOUR_MS }

\* C9: once the directory has been listed, every regular file that was older
\* than the window at startup is either still waiting for its stat or unlink
\* callback or gone, whatever errors other entries have met; so when no
\* callback is left, all of them are deleted.
C9_SweepDeletesExpired ==
  cleanup.pc = "listed" =>
    \A p \in ExpiredAtStartup :
      p \in cleanup.stat \/ p \in cleanup.unlink \/ p \notin DOMAIN store

\* the sweep is over: the old file is gone although the stat of the dangling
\* link and the unlink of the directory failed; the file of age exactly one
\* hour is still there
C9_Witness ==
  /\ cleanupDone
  /\ OldFile \notin DOMAIN store /\ OldFile \in cleanup.removed
  /\ cleanup.failed = {OldDir, DeadLink}
  /\ EdgeFile \in DOMAIN store

\* C11: whichever way the metadata lookup fails (non-zero exit, no output,
\* output that is no JSON, failed spawn), the request goes on without a
\* title: its file is named after the fallback base, it reaches the cache
\* check and the conversion, and no "Server error" response is produced.
C11_MetadataFailureProceeds ==
  \A r \in Reqs :
    req[r].meta \in MetaFailures =>
      /\ req[r].path # NoPath
      /\ req[r].path[1] = baseOf(req[r].id, NoTitle)
      /\ req[r].cached \/ Len(req[r].attempted) >= 1
      /\ \A i \in 1..Len(req[r].responses) :
           req[r].responses[i].status = 500 =>
             req[r].responses[i].body # << "Server error" >>

\* the spawn of the metadata child failed, and the request was converted
\* and served under the name built from the id
C11_Witness ==
  \E r \in Reqs :
    /\ req[r].meta = "spawnError" /\ req[r].converted
    /\ req[r].path[1] = VideoId
    /\ req[r].pc = "done" /\ Len(req[r].responses) = 1
    /\ req[r].responses[1].status = 200

\* C12 as stated: a request whose identifier is empty is answered with 400
\* "Missing id", and no child process is spawned for it.
C12_Original ==
  \A r \in Reqs :
    (req[r].pc # "idle" /\ req[r].id = EmptyId) =>
      /\ req[r].responses = << [status |-> 400, body |-> "Missing id"] >>
      /\ req[r].meta = "" /\ req[r].ytdl = 0 /\ req[r].ffmpeg = 0
      /\ req[r].attempted = << >>

\* C13 as stated: a request that found a file at its path at the cache
\* check and served it has spawned no extractor and no transcoder and, once
\* the transfer is over, has a deletion of the file scheduled.
C13_Original ==
  \A r \in Reqs :
    ( /\ req[r].cached /\ req[r].pc = "done"
      /\ Len(req[r].responses) = 1 /\ req[r].responses[1].status = 200 ) =>
      /\ req[r].attempted = << >> /\ req[r].ytdl = 0 /\ req[r].ffmpeg = 0
      /\ sched[r].calls >= 1

\* the phases of a request, in order: Resolving (0), MetadataLookup (1),
\* Converting (2), Responding (3, 4), over (5); the cache check is the step
\* that leaves MetadataLookup
PhaseRank(pc) ==
  CASE pc = "idle" -> 0
    [] pc = "meta" -> 1
    [] pc = "converting" -> 2
    [] pc = "sending" -> 3
    [] pc = "streaming" -> 4
    [] OTHER -> 5

\* C14: a request never goes back to an earlier phase; an extractor or a
\* transcoder is spawned only by the step that ends the metadata lookup
\* with no file at the computed path, or inside Converting by the step that
\* ends the previous attempt; a request served from the cache never
\* converts, and a request that has left Converting never returns to it.
C14_PhasesInOrder ==
  [][ \A r \in Reqs :
        /\ PhaseRank(req'[r].pc) >= PhaseRank(req[r].pc)
        /\ (req'[r].ytdl > req[r].ytdl \/ req'[r].ffmpeg > req[r].ffmpeg) =>
             /\ req[r].pc \in {"meta", "converting"}
             /\ req'[r].pc = "converting"
             /\ req'[r].meta # "" /\ ~req'[r].cached
             /\ req[r].pc = "meta" => ~existsSync(req'[r].path)
             /\ Len(req'[r].attempted) = Len(req[r].attempted) + 1
        /\ req'[r].attempted # req[r].attempted =>
             (req'[r].ytdl > req[r].ytdl /\ req'[r].ffmpeg >= req[r].ffmpeg)
    ]_vars

\* one request went through every phase, with two attempts inside
\* Converting, and has its deletion scheduled; another one was served from
\* the cache without converting
C14_Witness ==
  \E r1, r2 \in Reqs :
    /\ req[r1].pc = "done" /\ req[r1].converted /\ sched[r1].calls = 1
    /\ Len(req[r1].attempted) = 2
    /\ req[r2].pc = "done" /\ req[r2].cached /\ req[r2].attempted = << >>

\* C15 as stated: no fault raised while a request is handled, a fault in a
\* callback of a child process included, ever terminates the server: no
\* request is left without an answer by a process that has exited, and the
\* request in which the fault was raised gets the generic 500.
C15_Original ==
  \A r \in Reqs : req[r].pc # "down"

\* q spells the tier, in whatever case
EqualsIgnoringCase(q, tier) ==
  /\ Len(q) = Len(tier)
  /\ \A i \in 1..Len(q) :
       \/ q[i] = tier[i]
       \/ \E k \in 1..Len(LowerCase) : LowerCase[k] = tier[i] /\ UpperCase[k] = q[i]

\* C16: for every quality segment the tier of the request is low, medium or
\* high when the segment spells that tier in any case and high otherwise, and
\* the bitrate handed to the transcoder is 64k for low, 128k for medium and
\* 320k for high.
C16_QualityTier ==
  \A r \in Reqs :
    req[r].qualityKey # << >> =>
      LET q == req[r].quality
          tier == IF EqualsIgnoringCase(q, Low) THEN Low
                  ELSE IF EqualsIgnoringCase(q, Medium) THEN Medium ELSE High
      IN /\ req[r].qualityKey = tier
         /\ req[r].bitrate \in {"64k", "128k", "320k"}
         /\ req[r].bitrate = (IF tier = Low THEN "64k"
                               ELSE IF tier = Medium THEN "128k" ELSE "320k")

\* one request asked for "Low" and converts at 64k, another asked for
\* "ultra" and converts at 320k
C16_Witness ==
  \E r1, r2 \in Reqs :
    /\ req[r1].quality = << "L", "o", "w" >> /\ req[r1].bitrate = "64k"
    /\ req[r2].quality = << "u", "l", "t", "r", "a" >> /\ req[r2].bitrate = "320k"
    /\ req[r2].qualityKey = High

\* exactly 11 characters of the class [a-zA-Z0-9_-]
StrictId(id) == Len(id) = 11 /\ \A i \in 1..11 : id[i] \in IdAlphabet

BeginsWithHttp(id) ==
  Len(id) >= 4 /\ id[1] = "h" /\ id[2] = "t" /\ id[3] = "t" /\ id[4] = "p"

\* C17: the URL handed to yt-dlp depends on the identifier alone: a strict
\* 11-character id is put into the watch URL even when it begins with
\* "http"; any other identifier beginning with "http" is used as it is; every
\* other identifier is put into the watch URL.
C17_CanonicalUrl ==
  /\ \A r \in Reqs :
       req[r].videoUrl # << >> =>
         LET id == req[r].id
             watch == << "https://www.youtube.com/watch?v=" >> \o id
         IN /\ StrictId(id) => req[r].videoUrl = watch
            /\ (~StrictId(id) /\ BeginsWithHttp(id)) => req[r].videoUrl = id
            /\ (~StrictId(id) /\ ~BeginsWithHttp(id)) => req[r].videoUrl = watch
  /\ \A r1, r2 \in Reqs :
       (req[r1].videoUrl # << >> /\ req[r2].videoUrl # << >> /\ req[r1].id = req[r2].id)
         => req[r1].videoUrl = req[r2].videoUrl

\* a strict id beginning with "http" went into the watch URL, and an
\* escaped URL was decoded and used as it is
C17_Witness ==
  \E r1, r2 \in Reqs :
    /\ req[r1].id = HttpLikeId
    /\ req[r1].videoUrl = << "https://www.youtube.com/watch?v=" >> \o HttpLikeId
    /\ req[r2].id = << "h", "t", "t", "p", "s", ":", "/", "/", "y", "t", ".", "b", "e", "/", "x" >>
    /\ req[r2].videoUrl = req[r2].id

\* C18: on the step that evaluates an attempt, the attempt is judged
\* successful exactly when ffmpeg closed with code 0 and a file is at the
\* output path at that moment; an attempt that closed with code 0 and left
\* no file is recorded as failed and the next selector, if there is one, is
\* started.  Nothing else enters the decision.
C18_SuccessCriterion ==
  [][ \A r \in Reqs :
        (Converting(r) /\ req'[r].ffmpeg < req[r].ffmpeg) =>
          /\ req'[r].converted <=>
               (req'[r].code = 0 /\ existsSync(req[r].path))
          /\ ~req'[r].converted =>
               /\ Len(req'[r].finalErrorText) = Len(req[r].finalErrorText) + 1
               /\ req[r].fmtIdx < Len(formatsToTry) =>
                    /\ req'[r].pc = "converting"
                    /\ req'[r].fmtIdx = req[r].fmtIdx + 1
    ]_vars

\* an attempt closed with code 0 but its file was gone: it is on record
\* as failed with code 0 and the second selector has been started
C18_Witness ==
  \E r \in Reqs :
    /\ Len(req[r].finalErrorText) >= 1 /\ req[r].finalErrorText[1].code = 0
    /\ Len(req[r].attempted) = 2 /\ ~req[r].converted

C20_DeletionIdempotent ==
  [][ /\ \A t \in timers \ timers' :
           t.path \notin DOMAIN store =>
             /\ store' = store
             /\ req' = req
             /\ \A r \in Reqs : sched'[r].deleted = sched[r].deleted
      /\ \A p \in cleanup.unlink \ cleanup'.unlink :
           p \notin DOMAIN store =>
             store' = store /\ req' = req /\ cleanup'.removed = cleanup.removed
      /\ \A r \in Reqs :
           sched'[r].deleted # sched[r].deleted =>
             /\ sched'[r].deleted = sched[r].deleted + 1
             /\ \E t \in timers \ timers' :
                  t.req = r /\ t.path \in DOMAIN store /\ t.path \notin DOMAIN store'
      /\ \A p \in cleanup'.removed \ cleanup.removed :
           p \in DOMAIN store /\ p \notin DOMAIN store'
    ]_vars

\* a deletion timer has run for a path whose file was already gone (the
\* file of a served request was removed by the failure branch of a request
\* that shared its path) and logged nothing
C20_Witness ==
  \E r \in Reqs :
    /\ sched[r].fires = 1 /\ sched[r].deleted = 0
    /\ req[r].pc = "done" /\ req[r].path \notin DOMAIN store

C22_Original ==
  \A r \in Reqs :
    /\ Len(req[r].responses) <= 1
    /\ \A i \in 1..Len(req[r].responses) :
         LET a == req[r].responses[i]
         IN \/ a.status = 400 /\ a.body = "Missing id"
            \/ a.status = 200 /\ a.body[1] = "attachment"
            \/ a.status = 500 /\ a.body[1] \in {"Conversion failed",
                                                  "Conversion failed. Debug info:"}
            \/ a.status = 500 /\ a.body \in {<< "Server error" >>,
                                               << "Error sending file" >>}

\* C23 as stated: in the single-attempt handler, when the client went away
\* while ffmpeg was running and the request is over (the 'close' of ffmpeg
\* and what it started have been handled), the output path holds no file
\* unless a deletion of it has been scheduled.
C23_Original ==
  \A r \in Reqs :
    ("ffmpeg" \in req[r].killed /\ req[r].pc = "done") =>
      (req[r].path \notin DOMAIN store \/ sched[r].calls >= 1)

\* the 500 response that carries the diagnostics of the attempts
ConversionFailed(a) ==
  a.status = 500 /\ a.body[1] = "Conversion failed. Debug info:"

\* C24: a request that has been answered with the 500 "Conversion failed"
\* diagnostics has attempted the four selectors in order, has one recorded
\* failure for each of them, has no transcoder left to wait for and has
\* never had a successful attempt; the response is sent by the step that
\* handles the end of the fourth attempt.
C24_FailureOnlyAfterAllFour ==
  [][ \A r \in Reqs :
        /\ \A i \in 1..Len(req'[r].responses) :
             ConversionFailed(req'[r].responses[i]) =>
               /\ req'[r].attempted = formatsToTry
               /\ Len(req'[r].finalErrorText) = Len(formatsToTry)
               /\ req'[r].responses[i].body[2] = req'[r].finalErrorText
               /\ req'[r].ffmpeg = 0
               /\ ~req'[r].converted
        /\ (Len(req'[r].responses) > Len(req[r].responses)
              /\ ConversionFailed(req'[r].responses[Len(req'[r].responses)])) =>
               /\ Converting(r) /\ req[r].fmtIdx = Len(formatsToTry)
               /\ req[r].ffmpeg = 1 /\ ~req[r].converted
               /\ Len(req[r].finalErrorText) = Len(formatsToTry) - 1
    ]_vars

\* the diagnostics have been sent after four failed attempts, while an
\* extractor of the request is still running
C24_Witness ==
  \E r \in Reqs :
    /\ Len(req[r].responses) = 1 /\ ConversionFailed(req[r].responses[1])
    /\ req[r].fmtIdx = Len(formatsToTry) /\ req[r].ytdl > 0

====
